---- MODULE Spec2Model ----
(* UsersController (src/src/app.module.ts) behind its role gate and in front  *)
(* of the injected IUsersService.  One request flow per slot of Reqs; flows   *)
(* interleave at the gate, at the awaited service call and at the fold.       *)
EXTENDS Integers, FiniteSets, Sequences, TLC

\* ---------------------------------------------------------------- bounds
MaxReq == 2
MaxId == 2

Reqs == 1..MaxReq
Ids == 1..MaxId
Usernames == {"alice", "bob"}
Roles == {"admin", "guest", "other"}
CallerRoleSets == (SUBSET Roles) \ {{}}

\* ------------------------------------------------------- framework constants
NOT_FOUND == 404
CONFLICT == 409
FORBIDDEN == 403

\* ------------------------------------------------------------- data shapes
NoEntity == [id |-> 0, username |-> "", data |-> ""]
NoError == [name |-> "", message |-> ""]

User(i, u, d) == [id |-> i, username |-> u, data |-> d]

Ok(v) == [tag |-> "Ok", value |-> v, error |-> NoError]
Err(e) == [tag |-> "Err", value |-> NoEntity, error |-> e]
NoResult == [tag |-> "None", value |-> NoEntity, error |-> NoError]

UserNotFoundError == [name |-> "UserNotFoundError", message |-> "user not found"]
UserAlreadyExistsError == [name |-> "UserAlreadyExistsError", message |-> "user already exists"]
InternalError == [name |-> "Error", message |-> "unexpected"]

InstanceOf(error, cls) == error.name = cls

\* responses: none | success | http (a thrown HttpException) | forbidden | fatal
NoResp == [type |-> "none", status |-> 0, value |-> NoEntity, items |-> {}, error |-> NoError]
Returned(v) == [NoResp EXCEPT !.type = "success", !.value = v]
ReturnedAll(s) == [NoResp EXCEPT !.type = "success", !.items = s]
Rethrown(e) == [NoResp EXCEPT !.type = "fatal", !.error = e]
Forbidden == [NoResp EXCEPT !.type = "forbidden", !.status = FORBIDDEN]

NotFoundException(error) ==
    [NoResp EXCEPT !.type = "http", !.status = NOT_FOUND,
                   !.error = [name |-> error.name, message |-> error.message]]

ConflictException(error) ==
    [NoResp EXCEPT !.type = "http", !.status = CONFLICT,
                   !.error = [name |-> error.name, message |-> error.message]]

\* ------------------------------------------------------------ access policy
Operations == {"getAll", "findOne", "createUser", "updateUser", "removeUser", "other"}

AccessPolicyFindOneAdminOnly ==
    [getAll |-> {"admin", "guest"}, findOne |-> {"admin"},
     createUser |-> {"admin"}, updateUser |-> {"admin"}, removeUser |-> {"admin"}]

AccessPolicyGuestRemoves ==
    [getAll |-> {"admin", "guest"}, findOne |-> {"admin", "guest"},
     createUser |-> {"admin"}, updateUser |-> {"admin"},
     removeUser |-> {"admin", "guest"}]

AccessPolicy ==
    [getAll |-> {"admin", "guest"}, findOne |-> {"admin", "guest"},
     createUser |-> {"admin"}, updateUser |-> {"admin"}, removeUser |-> {"admin"}]

HasRule(op) == op \in DOMAIN AccessPolicy

AuthorizeFailOpen(roles, op) ==
    IF HasRule(op) THEN roles \cap AccessPolicy[op] # {} ELSE TRUE

Authorize(roles, op) ==
    IF HasRule(op) THEN roles \cap AccessPolicy[op] # {} ELSE FALSE

\* --------------------------------------------------------------- the fold
\* onErr and onOk are the two callbacks, as functions of the payload; the
\* counters record which of them the fold invoked.
cataBoth(result, onErr, onOk) ==
    [resp |-> IF result.tag = "Err" THEN onErr[result.error] ELSE onOk[result.value],
     errCalls |-> 1, okCalls |-> 1]

cata(result, onErr, onOk) ==
    IF result.tag = "Err"
    THEN [resp |-> onErr[result.error], errCalls |-> 1, okCalls |-> 0]
    ELSE [resp |-> onOk[result.value], errCalls |-> 0, okCalls |-> 1]

identity(v) == Returned(v)

\* ------------------------------------------------------- handler callbacks
findOneOnErrSwallows(error) ==
    IF InstanceOf(error, "UserNotFoundError")
    THEN NotFoundException(error)
    ELSE Returned(NoEntity)

findOneOnErr(error) ==
    IF InstanceOf(error, "UserNotFoundError")
    THEN NotFoundException(error)
    ELSE Rethrown(error)

createUserOnErrNotFound(error) ==
    IF InstanceOf(error, "UserAlreadyExistsError")
    THEN NotFoundException(error)
    ELSE Rethrown(error)

createUserOnErrRethrows(error) == Rethrown(error)

createUserOnErr(error) ==
    IF InstanceOf(error, "UserAlreadyExistsError")
    THEN ConflictException(error)
    ELSE Rethrown(error)

updateUserOnErrConflict(error) ==
    IF InstanceOf(error, "UserNotFoundError")
    THEN ConflictException(error)
    ELSE Rethrown(error)

updateUserOnErr(error) ==
    IF InstanceOf(error, "UserNotFoundError")
    THEN NotFoundException(error)
    ELSE Rethrown(error)

removeUserOnErrIdempotent(error) ==
    IF InstanceOf(error, "UserNotFoundError")
    THEN Returned(NoEntity)
    ELSE Rethrown(error)

removeUserOnErr(error) ==
    IF InstanceOf(error, "UserNotFoundError")
    THEN NotFoundException(error)
    ELSE Rethrown(error)

ErrorValues == {UserNotFoundError, UserAlreadyExistsError, InternalError}
Entities == {User(i, u, d) : i \in Ids, u \in Usernames, d \in {"d0", "d1"}}

Handler(op, result) ==
    LET onOk == [v \in Entities |-> identity(v)] IN
    CASE op = "findOne" ->
           cata(result, [e \in ErrorValues |-> findOneOnErr(e)], onOk)
      [] op = "createUser" ->
           cata(result, [e \in ErrorValues |-> createUserOnErr(e)], onOk)
      [] op = "updateUser" ->
           cata(result, [e \in ErrorValues |-> updateUserOnErr(e)], onOk)
      [] op = "removeUser" ->
           cata(result, [e \in ErrorValues |-> removeUserOnErr(e)], onOk)

\* ------------------------------------------------- the injected UsersService
\* Each method yields [result, store, nextId]: the Result it resolves to and
\* the store it leaves behind.
ById(store, id) == {u \in store : u.id = id}
ByUsername(store, username) == {u \in store : u.username = username}

svc_findOne(store, nextId, id) ==
    IF ById(store, id) = {}
    THEN [result |-> Err(UserNotFoundError), store |-> store, nextId |-> nextId]
    ELSE [result |-> Ok(CHOOSE u \in ById(store, id) : TRUE),
          store |-> store, nextId |-> nextId]

svc_addUser(store, nextId, username) ==
    IF ByUsername(store, username) # {}
    THEN [result |-> Err(UserAlreadyExistsError), store |-> store, nextId |-> nextId]
    ELSE LET u == User(nextId, username, "d0") IN
         [result |-> Ok(u), store |-> store \cup {u}, nextId |-> nextId + 1]

svc_updateUser(store, nextId, id) ==
    IF ById(store, id) = {}
    THEN [result |-> Err(UserNotFoundError), store |-> store, nextId |-> nextId]
    ELSE LET old == CHOOSE u \in ById(store, id) : TRUE
             new == [old EXCEPT !.data = "d1"] IN
         [result |-> Ok(new), store |-> (store \ {old}) \cup {new}, nextId |-> nextId]

svc_removeUser(store, nextId, id) ==
    IF ById(store, id) = {}
    THEN [result |-> Err(UserNotFoundError), store |-> store, nextId |-> nextId]
    ELSE LET old == CHOOSE u \in ById(store, id) : TRUE IN
         [result |-> Ok(old), store |-> store \ {old}, nextId |-> nextId]

\* The kind of Err each method documents; any other kind is undocumented.
Documented(op) == IF op = "createUser" THEN "UserAlreadyExistsError" ELSE "UserNotFoundError"
Undocumented(op) == {e \in ErrorValues : e.name # Documented(op)}

\* The service method each handler awaits.
ServiceCall(op, store, nextId, id, username) ==
    CASE op = "findOne" -> svc_findOne(store, nextId, id)
      [] op = "createUser" -> svc_addUser(store, nextId, username)
      [] op = "updateUser" -> svc_updateUser(store, nextId, id)
      [] op = "removeUser" -> svc_removeUser(store, nextId, id)

FoldOps == {"findOne", "createUser", "updateUser", "removeUser"}

\* ------------------------------------------------------------------ state
VARIABLES store, nextId, req

vars == <<store, nextId, req>>

IdleReq ==
    [phase |-> "Idle", op |-> "", roles |-> {}, id |-> 0, username |-> "",
     result |-> NoResult, resp |-> NoResp,
     calls |-> 0, errCalls |-> 0, okCalls |-> 0, responses |-> 0,
     found |-> FALSE, taken |-> FALSE]

\* What a request of operation op carries.
ArgIds(op) == IF op \in {"findOne", "updateUser", "removeUser"} THEN Ids ELSE {0}
ArgNames(op) == IF op = "createUser" THEN Usernames ELSE {""}

InitStores == {{}, {User(1, "alice", "d0")}}

Init ==
    /\ store \in InitStores
    /\ nextId = Cardinality(store) + 1
    /\ req = [r \in Reqs |-> IdleReq]

\* A request arrives with the caller's resolved roles.
Receive(r, op, roles, id, username) ==
    /\ req[r].phase = "Idle"
    /\ \A q \in Reqs : q < r => req[q].phase # "Idle"
    /\ req' = [req EXCEPT ![r] =
                 [IdleReq EXCEPT !.phase = "Pending", !.op = op, !.roles = roles,
                                 !.id = id, !.username = username]]
    /\ UNCHANGED <<store, nextId>>

\* The role gate decides before the handler runs.
Gate(r) ==
    /\ req[r].phase = "Pending"
    /\ req' = [req EXCEPT ![r] =
                 IF Authorize(req[r].roles, req[r].op)
                 THEN [@ EXCEPT !.phase = "Authorized"]
                 ELSE [@ EXCEPT !.phase = "Denied", !.resp = Forbidden,
                                !.responses = @ + 1]]
    /\ UNCHANGED <<store, nextId>>

\* getAll returns the service's answer as it is.
GetAll(r) ==
    /\ req[r].phase = "Authorized"
    /\ req[r].op = "getAll"
    /\ req' = [req EXCEPT ![r] =
                 [@ EXCEPT !.phase = "Done", !.calls = @ + 1,
                           !.resp = ReturnedAll(store), !.responses = @ + 1]]
    /\ UNCHANGED <<store, nextId>>

\* The handler calls its service method and awaits the Result.
Invoke(r) ==
    /\ req[r].phase = "Authorized"
    /\ req[r].op \in FoldOps
    /\ req[r].op = "createUser" => nextId <= MaxId
    /\ LET out == ServiceCall(req[r].op, store, nextId, req[r].id, req[r].username) IN
         /\ store' = out.store
         /\ nextId' = out.nextId
         /\ req' = [req EXCEPT ![r] =
                      [@ EXCEPT !.phase = "Awaiting", !.calls = @ + 1,
                                !.result = out.result,
                                !.found = (ById(store, req[r].id) # {}),
                                !.taken = (ByUsername(store, req[r].username) # {})]]

\* The service resolves to an Err of a kind the method does not document.
InvokeFault(r, e) ==
    /\ req[r].phase = "Authorized"
    /\ req[r].op \in FoldOps
    /\ e \in Undocumented(req[r].op)
    /\ req' = [req EXCEPT ![r] =
                 [@ EXCEPT !.phase = "Awaiting", !.calls = @ + 1,
                           !.result = Err(e),
                           !.found = (ById(store, req[r].id) # {}),
                           !.taken = (ByUsername(store, req[r].username) # {})]]
    /\ UNCHANGED <<store, nextId>>

\* The awaited Result is folded into the response.
Fold(r) ==
    /\ req[r].phase = "Awaiting"
    /\ LET f == Handler(req[r].op, req[r].result) IN
         req' = [req EXCEPT ![r] =
                   [@ EXCEPT !.phase = "Done", !.resp = f.resp,
                             !.errCalls = @ + f.errCalls, !.okCalls = @ + f.okCalls,
                             !.responses = @ + 1]]
    /\ UNCHANGED <<store, nextId>>

\* Requests arrive from callers holding one of roleSets, naming ids and
\* usernames among ids and names.
ArriveFrom(roleSets, ids, names) ==
    \E r \in Reqs, op \in Operations, roles \in roleSets :
      \E id \in ArgIds(op) \cap ({0} \cup ids), username \in ArgNames(op) \cap ({""} \cup names) :
        Receive(r, op, roles, id, username)

Served ==
    \/ \E r \in Reqs : Gate(r)
    \/ \E r \in Reqs : GetAll(r)
    \/ \E r \in Reqs : Invoke(r)
    \/ \E r \in Reqs : Fold(r)

Faulted == \E r \in Reqs, e \in ErrorValues : InvokeFault(r, e)

Next ==
    \/ ArriveFrom(CallerRoleSets, Ids, Usernames)
    \/ Served
    \/ Faulted

NextGate ==
    \/ ArriveFrom(CallerRoleSets, {1}, {"alice"})
    \/ Served

NextAdmin ==
    \/ ArriveFrom({{"admin"}}, Ids, Usernames)
    \/ Served
    \/ Faulted

NextContract ==
    \/ ArriveFrom({{"admin"}}, Ids, Usernames)
    \/ Served

\* Any caller, any argument; the service may resolve to undocumented Errs.
Spec == Init /\ [][Next]_vars

\* Any caller; requests name id 1 and username alice; the service keeps to
\* the Err kinds its methods document.
SpecGate == Init /\ [][NextGate]_vars

\* Callers hold admin; any argument; the service may resolve to undocumented Errs.
SpecAdmin == Init /\ [][NextAdmin]_vars

\* Callers hold admin; any argument; the service keeps to the Err kinds its
\* methods document.
SpecContract == Init /\ [][NextContract]_vars

\* ================================================================ claims
Decided(r) == req[r].phase \notin {"Idle", "Pending"}
Done(r) == req[r].phase = "Done"
ControllerOps == {"getAll", "findOne", "createUser", "updateUser", "removeUser"}
DeclaredRoles(op) == IF op \in {"getAll", "findOne"} THEN {"admin", "guest"} ELSE {"admin"}

\* C1: for every endpoint of UsersController and every non-empty caller role
\* set, the gate authorizes the request iff the caller shares a role with the
\* endpoint's declared roles ({admin, guest} for getAll and findOne, {admin}
\* for createUser, updateUser and removeUser), and denies it otherwise.
C1_AuthorizedIffSharedRole ==
    \A r \in Reqs :
      (Decided(r) /\ req[r].op \in ControllerOps) =>
        /\ req[r].roles # {}
        /\ (req[r].phase # "Denied") <=> (req[r].roles \cap DeclaredRoles(req[r].op) # {})
        /\ (req[r].phase = "Denied") <=> (req[r].resp = Forbidden)

C1_Witness ==
    \E r1, r2 \in Reqs :
      /\ req[r1].op = "getAll" /\ req[r1].roles = {"other"} /\ req[r1].phase = "Denied"
      /\ req[r2].op = "updateUser" /\ req[r2].roles = {"admin", "other"}
      /\ req[r2].phase = "Authorized"

\* C2: a request the gate denies never invokes a UsersService method and
\* leaves the store unchanged; the service is invoked only for a request that
\* is already Authorized, so a caller holding only guest never reaches
\* removeUser.
C2_DeniedNeverInvokes_State ==
    \A r \in Reqs :
      /\ req[r].phase = "Denied" => (req[r].calls = 0 /\ req[r].result = NoResult)
      /\ req[r].calls > 0 => req[r].phase \in {"Awaiting", "Done"}
      /\ (Decided(r) /\ req[r].op = "removeUser" /\ req[r].roles = {"guest"}) =>
           (req[r].phase = "Denied" /\ req[r].calls = 0)

C2_DeniedNeverInvokes_Step ==
    /\ \A r \in Reqs : req[r].phase = "Denied" => req'[r] = req[r]
    /\ \A r \in Reqs : req'[r].calls # req[r].calls => req[r].phase = "Authorized"
    /\ \A r \in Reqs : (req[r].phase = "Pending" /\ req'[r].phase = "Denied") =>
                         (store' = store /\ nextId' = nextId)
    /\ (store' # store \/ nextId' # nextId) =>
         \E r \in Reqs : req[r].phase = "Authorized" /\ req'[r].calls = req[r].calls + 1

C2_DeniedNeverInvokes ==
    []C2_DeniedNeverInvokes_State /\ [][C2_DeniedNeverInvokes_Step]_vars

C2_Witness ==
    \E r1, r2 \in Reqs :
      /\ req[r1].op = "removeUser" /\ req[r1].roles = {"guest"} /\ req[r1].id = 1
      /\ req[r1].phase = "Denied" /\ req[r1].calls = 0
      /\ req[r2].op = "createUser" /\ req[r2].roles = {"admin"}
      /\ req[r2].phase = "Done" /\ req[r2].calls = 1
      /\ ById(store, 1) # {}

\* C3: when findOne, updateUser or removeUser gets Err(UserNotFoundError) from
\* the service, the request ends with a 404 response whose body carries the
\* error's name and message, never with success.
C3_NotFoundIs404 ==
    \A r \in Reqs :
      (/\ Done(r)
       /\ req[r].op \in {"findOne", "updateUser", "removeUser"}
       /\ req[r].result.tag = "Err"
       /\ req[r].result.error.name = "UserNotFoundError") =>
        /\ req[r].resp.type = "http"
        /\ req[r].resp.status = 404
        /\ req[r].resp.error.name = req[r].result.error.name
        /\ req[r].resp.error.message = req[r].result.error.message
        /\ req[r].resp.error.message # ""

C3_Witness ==
    \E r1, r2 \in Reqs :
      /\ Done(r1) /\ req[r1].op = "updateUser" /\ req[r1].result = Err(UserNotFoundError)
      /\ req[r1].resp.status = 404
      /\ Done(r2) /\ req[r2].op = "removeUser" /\ req[r2].result = Err(UserNotFoundError)
      /\ req[r2].resp.status = 404

\* C4: when createUser gets Err(UserAlreadyExistsError) from addUser the
\* request ends with a 409 response carrying the error's name and message;
\* when addUser returns Ok(entity) it ends with success carrying that entity.
C4_CreateUserMapping ==
    \A r \in Reqs :
      (Done(r) /\ req[r].op = "createUser") =>
        /\ (req[r].result.tag = "Err"
              /\ req[r].result.error.name = "UserAlreadyExistsError") =>
             /\ req[r].resp.type = "http"
             /\ req[r].resp.status = 409
             /\ req[r].resp.error.name = req[r].result.error.name
             /\ req[r].resp.error.message = req[r].result.error.message
        /\ req[r].result.tag = "Ok" =>
             /\ req[r].resp.type = "success"
             /\ req[r].resp.value = req[r].result.value
             /\ req[r].resp.value.username = req[r].username

C4_Witness ==
    \E r1, r2 \in Reqs :
      /\ Done(r1) /\ req[r1].op = "createUser" /\ req[r1].result.tag = "Ok"
      /\ req[r1].resp.type = "success" /\ req[r1].resp.value.username = "bob"
      /\ Done(r2) /\ req[r2].op = "createUser"
      /\ req[r2].result = Err(UserAlreadyExistsError) /\ req[r2].resp.status = 409

\* C5: in every folding handler an Err whose kind the handler does not map
\* is rethrown as an unhandled failure carrying the original error; it never
\* becomes a 404, a 409 or a success.
C5_UnmappedErrIsFatal ==
    \A r \in Reqs :
      (/\ Done(r)
       /\ req[r].op \in FoldOps
       /\ req[r].result.tag = "Err"
       /\ req[r].result.error.name #
            (IF req[r].op = "createUser" THEN "UserAlreadyExistsError"
                                         ELSE "UserNotFoundError")) =>
        /\ req[r].resp.type = "fatal"
        /\ req[r].resp.error = req[r].result.error
        /\ req[r].resp.status \notin {404, 409}

C5_Witness ==
    \E r1, r2 \in Reqs :
      /\ Done(r1) /\ req[r1].op = "findOne"
      /\ req[r1].result = Err(UserAlreadyExistsError) /\ req[r1].resp.type = "fatal"
      /\ Done(r2) /\ req[r2].op = "removeUser"
      /\ req[r2].result = Err(InternalError) /\ req[r2].resp.type = "fatal"

\* C6: for every Result a service call produces, the fold invokes exactly one
\* branch exactly once (the error branch for Err, the ok branch for Ok), and
\* every authorized request ends in exactly one outcome: success, a mapped
\* error response, or a fatal failure.
C6_ExactlyOneBranch ==
    \A r \in Reqs :
      /\ (Done(r) /\ req[r].op \in FoldOps) =>
           /\ req[r].errCalls + req[r].okCalls = 1
           /\ (req[r].errCalls = 1) <=> (req[r].result.tag = "Err")
           /\ (req[r].okCalls = 1) <=> (req[r].result.tag = "Ok")
      /\ Done(r) =>
           /\ req[r].responses = 1
           /\ req[r].resp.type \in {"success", "http", "fatal"}
      /\ req[r].phase \in {"Authorized", "Awaiting"} =>
           /\ req[r].responses = 0
           /\ req[r].errCalls + req[r].okCalls = 0
           /\ req[r].resp = NoResp

C6_Witness ==
    \E r1, r2 \in Reqs :
      /\ Done(r1) /\ req[r1].result.tag = "Err" /\ req[r1].errCalls = 1
      /\ req[r1].okCalls = 0
      /\ Done(r2) /\ req[r2].result.tag = "Ok" /\ req[r2].okCalls = 1
      /\ req[r2].errCalls = 0

\* C7: a request for an operation that has no access rule is always denied,
\* whatever roles the caller holds.
C7_NoRuleIsDenied ==
    \A r \in Reqs :
      (Decided(r) /\ req[r].op \notin ControllerOps) =>
        /\ req[r].phase = "Denied"
        /\ req[r].resp = Forbidden
        /\ req[r].calls = 0

C7_Witness ==
    \E r \in Reqs :
      /\ req[r].op = "other" /\ req[r].roles = Roles /\ req[r].phase = "Denied"

\* C8: for an id present in the store, two successive authorized
\* removeUser(id) requests yield success with the removed entity and then a
\* 404; removing an absent id never yields success.  (found records whether
\* the id was in the store when the request reached the service; ids are
\* never reused, so of two removals of one id the one that found it is the
\* earlier.)
C8_RemoveTwice ==
    /\ \A r \in Reqs :
         (Done(r) /\ req[r].op = "removeUser" /\ ~req[r].found) =>
           (req[r].resp.type = "http" /\ req[r].resp.status = 404)
    /\ \A r1, r2 \in Reqs :
         (/\ r1 # r2
          /\ Done(r1) /\ Done(r2)
          /\ req[r1].op = "removeUser" /\ req[r2].op = "removeUser"
          /\ req[r1].id = req[r2].id
          /\ req[r1].found) =>
           /\ req[r1].resp.type = "success"
           /\ req[r1].resp.value.id = req[r1].id
           /\ req[r1].resp.value \notin store
           /\ ~req[r2].found
           /\ req[r2].resp.type = "http"
           /\ req[r2].resp.status = 404
           /\ req[r2].resp.error.name = "UserNotFoundError"

C8_Witness ==
    \E r1, r2 \in Reqs :
      /\ r1 # r2
      /\ Done(r1) /\ Done(r2)
      /\ req[r1].op = "removeUser" /\ req[r2].op = "removeUser"
      /\ req[r1].id = 1 /\ req[r2].id = 1
      /\ req[r1].found /\ ~req[r2].found
      /\ req[r1].resp = Returned(User(1, "alice", "d0"))
      /\ req[r2].resp.status = 404

\* C9: of two concurrent authorized createUser requests with the same
\* username on a store that does not hold it, whatever the interleaving, one
\* ends in success and the other in a 409; the store never holds two entities
\* with the same username.  (taken records whether the username was in the
\* store when the request reached the service.)
Removed(username) ==
    \E q \in Reqs :
      /\ req[q].op = "removeUser" /\ req[q].result.tag = "Ok"
      /\ req[q].result.value.username = username

C9_ConcurrentCreate ==
    /\ \A u, v \in store : u.username = v.username => u = v
    /\ \A r1, r2 \in Reqs :
         (/\ r1 # r2
          /\ Done(r1) /\ Done(r2)
          /\ req[r1].op = "createUser" /\ req[r2].op = "createUser"
          /\ req[r1].username = req[r2].username
          /\ ~req[r1].taken
          /\ ~Removed(req[r1].username)) =>
           /\ req[r1].resp.type = "success"
           /\ req[r1].resp.value.username = req[r1].username
           /\ req[r2].resp.type = "http"
           /\ req[r2].resp.status = 409
           /\ req[r2].resp.error.name = "UserAlreadyExistsError"

C9_Witness ==
    \E r1, r2 \in Reqs :
      /\ r2 < r1
      /\ Done(r1) /\ Done(r2)
      /\ req[r1].op = "createUser" /\ req[r2].op = "createUser"
      /\ req[r1].username = "bob" /\ req[r2].username = "bob"
      /\ ~req[r1].taken /\ req[r2].taken
      /\ req[r1].resp.type = "success" /\ req[r2].resp.status = 409

\* C10: createUser answers 404, as its API documentation declares, when
\* addUser returns an error of the not-found kind.
C10_CreateUserNotFoundIs404 ==
    \A r \in Reqs :
      (/\ Done(r) /\ req[r].op = "createUser"
       /\ req[r].result.tag = "Err"
       /\ req[r].result.error.name = "UserNotFoundError") =>
        (req[r].resp.type = "http" /\ req[r].resp.status = 404)

====
